---- MODULE Spec2Model ----
(***************************************************************************)
(* Contact book: Contact / ContactMethod records (contacts_app/models.py)  *)
(* and the request handlers that write them (contacts_app/views.py).       *)
(* Text (names, values, labels, spreadsheet cells) is a sequence of        *)
(* one-character strings, so that strip/split/replace/rfind act on it as   *)
(* the Python code does.  method_type is only ever compared for equality   *)
(* and emptiness, so it stays a plain string.                              *)
(***************************************************************************)
EXTENDS Integers, Sequences, FiniteSets, TLC

VARIABLES contacts, methods, nextContactId, nextMethodId, served, req, resp,
          procs, codec

vars == <<contacts, methods, nextContactId, nextMethodId, served, req, resp,
          procs, codec>>

store == <<contacts, methods, nextContactId, nextMethodId>>

(* ------------------------------ bounds -------------------------------- *)
\* contact ids handed out: 1..MaxContactId
MaxContactId == 2
\* method ids handed out: 1..MaxMethodId
MaxMethodId == 3
\* requests served in one run
MaxRequests == 3
\* entries of a contact_methods array in a request body
MaxBatch == 2
\* rows of an uploaded spreadsheet
MaxRows == 2
\* methods of one type of the contact whose cell is exported and re-imported
MaxCodecMethods == 2

(* ------------------------------- text --------------------------------- *)
Str0 == <<>>
StrA == <<"a">>
StrB == <<"b">>
StrW == <<"W">>
StrNan == <<"n", "a", "n">>
StrYes == <<"Y", "e", "s">>
StrNo == <<"N", "o">>
StrPrimaryTag == <<"[", "P", "r", "i", "m", "a", "r", "y", "]">>

\* byte value of the characters used, for the store's text comparison (ORDER BY label)
Ord(c) ==
    CASE c = " " -> 32 [] c = "(" -> 40 [] c = ")" -> 41 [] c = ";" -> 59
      [] c = "N" -> 78 [] c = "P" -> 80 [] c = "W" -> 87 [] c = "Y" -> 89
      [] c = "[" -> 91 [] c = "]" -> 93 [] c = "a" -> 97 [] c = "b" -> 98
      [] c = "e" -> 101 [] c = "i" -> 105 [] c = "m" -> 109 [] c = "n" -> 110
      [] c = "o" -> 111 [] c = "r" -> 114 [] c = "s" -> 115 [] c = "y" -> 121

\* str.lower() on the characters used
LowerChar(c) ==
    CASE c = "N" -> "n" [] c = "P" -> "p" [] c = "W" -> "w" [] c = "Y" -> "y"
      [] OTHER -> c

Lower(s) == [i \in 1..Len(s) |-> LowerChar(s[i])]

RECURSIVE LStrip(_)
LStrip(s) == IF s # <<>> /\ Head(s) = " " THEN LStrip(Tail(s)) ELSE s

RECURSIVE RStrip(_)
RStrip(s) ==
    IF s # <<>> /\ s[Len(s)] = " " THEN RStrip(SubSeq(s, 1, Len(s) - 1)) ELSE s

\* str.strip()
Strip(s) == LStrip(RStrip(s))

\* c in s, for a character c
HasChar(s, c) == \E i \in 1..Len(s) : s[i] = c

\* t in s, for a non-empty text t
Contains(s, t) ==
    \E i \in 1..(Len(s) - Len(t) + 1) : SubSeq(s, i, i + Len(t) - 1) = t

\* s.replace(t, '') for a non-empty t: every occurrence, left to right
RECURSIVE Remove(_, _)
Remove(s, t) ==
    IF Len(s) < Len(t) THEN s
    ELSE IF SubSeq(s, 1, Len(t)) = t THEN Remove(SubSeq(s, Len(t) + 1, Len(s)), t)
    ELSE <<Head(s)>> \o Remove(Tail(s), t)

\* s.rfind(c), 1-based; 0 when c is not in s
RFind(s, c) ==
    IF HasChar(s, c) THEN CHOOSE i \in 1..Len(s) :
                              s[i] = c /\ \A j \in (i + 1)..Len(s) : s[j] # c
    ELSE 0

\* s.split(c): the pieces between the occurrences of c
RECURSIVE Split(_, _)
Split(s, c) ==
    IF ~HasChar(s, c) THEN <<s>>
    ELSE LET i == CHOOSE k \in 1..Len(s) : s[k] = c /\ \A j \in 1..(k - 1) : s[j] # c
         IN <<SubSeq(s, 1, i - 1)>> \o Split(SubSeq(s, i + 1, Len(s)), c)

\* sep.join(parts)
RECURSIVE Join(_, _)
Join(parts, sep) ==
    IF parts = <<>> THEN <<>>
    ELSE IF Len(parts) = 1 THEN parts[1]
    ELSE parts[1] \o sep \o Join(Tail(parts), sep)

\* a < b in the store's (binary) text order
RECURSIVE TextLess(_, _)
TextLess(a, b) ==
    IF b = <<>> THEN FALSE
    ELSE IF a = <<>> THEN TRUE
    ELSE IF Head(a) = Head(b) THEN TextLess(Tail(a), Tail(b))
    ELSE Ord(Head(a)) < Ord(Head(b))

(* ------------------------------ records ------------------------------- *)
\* ContactMethod.METHOD_TYPES: stored name -> display name
METHOD_TYPES ==
    [phone |-> "Phone", email |-> "Email",
     social_media |-> "Social Media", address |-> "Address"]

\* f with key k bound to v (an INSERT, or an UPDATE of row k)
Put(f, k, v) == [x \in (DOMAIN f) \cup {k} |-> IF x = k THEN v ELSE f[x]]

\* f without the keys in ks (a DELETE)
Drop(f, ks) == [x \in (DOMAIN f) \ ks |-> f[x]]

\* contact.contact_methods: ids of the methods that reference contact cid
MethodsOf(ms, cid) == {m \in DOMAIN ms : ms[m].contact = cid}

\* ids of the methods of (cid, type) flagged primary
PrimariesOf(ms, cid, type) ==
    {m \in MethodsOf(ms, cid) : ms[m].method_type = type /\ ms[m].is_primary}

\* the UPDATE of ContactMethod.save: clear is_primary on the other primary methods
\* of the same contact and method_type
DemoteSiblings(ms, id, rec) ==
    [m \in DOMAIN ms |->
        IF m # id /\ ms[m].contact = rec.contact
                  /\ ms[m].method_type = rec.method_type /\ ms[m].is_primary
        THEN [ms[m] EXCEPT !.is_primary = FALSE]
        ELSE ms[m]]

\* a save that skips the demotion
SaveNoDemote(ms, id, rec) == Put(ms, id, rec)

\* a save that clears the flag after writing, the saved row included
SaveDemoteAfter(ms, id, rec) ==
    IF rec.is_primary
    THEN [m \in DOMAIN Put(ms, id, rec) |->
            IF Put(ms, id, rec)[m].contact = rec.contact
               /\ Put(ms, id, rec)[m].method_type = rec.method_type
            THEN [Put(ms, id, rec)[m] EXCEPT !.is_primary = FALSE]
            ELSE Put(ms, id, rec)[m]]
    ELSE Put(ms, id, rec)

\* ContactMethod.save
Save(ms, id, rec) ==
    Put(IF rec.is_primary THEN DemoteSiblings(ms, id, rec) ELSE ms, id, rec)

(* --------------------------- request bodies --------------------------- *)
\* A JSON object is a function from the keys it has to their values.
NoKeys == <<>>

\* the objects that either lack key k or bind it to one of vs
Opt(k, vs) == {NoKeys} \cup {k :> v : v \in vs}

\* data.get(k, default)
Get(d, k, default) == IF k \in DOMAIN d THEN d[k] ELSE default

\* k not in d or not d[k]
MissingOrEmpty(d, k, empty) == k \notin DOMAIN d \/ d[k] = empty

\* well-formed contact_methods entries
ValidEntries ==
    { ("method_type" :> "phone") @@ ("value" :> StrB),
      ("method_type" :> "phone") @@ ("value" :> StrA) @@ ("label" :> StrW),
      ("method_type" :> "phone") @@ ("value" :> StrA) @@ ("is_primary" :> TRUE),
      ("method_type" :> "email") @@ ("value" :> StrA) @@ ("label" :> StrW)
          @@ ("is_primary" :> TRUE) }

\* entries without a method_type or a value, or with an empty one
DefectiveEntries ==
    { ("value" :> StrA),
      ("method_type" :> "") @@ ("value" :> StrA),
      ("method_type" :> "phone"),
      ("method_type" :> "email") @@ ("value" :> Str0) }

Entries == ValidEntries \cup DefectiveEntries

\* contact_methods arrays of at most MaxBatch entries
Batches == UNION {[1..n -> Entries] : n \in 0..MaxBatch}

Names == {Str0, StrA}

\* bodies of POST /contacts/
CreateBodies ==
    {n @@ m : n \in Opt("name", Names), m \in Opt("contact_methods", Batches)}

\* contact_methods arrays sent to PUT /contacts/{id}/, which validates nothing: an
\* entry either has both keys or makes the loop raise
UpdateEntries ==
    { ("method_type" :> "phone") @@ ("value" :> StrB),
      ("method_type" :> "email") @@ ("value" :> StrA) @@ ("label" :> StrW)
          @@ ("is_primary" :> TRUE),
      ("value" :> StrA),
      ("method_type" :> "phone") }

UpdateBatches == UNION {[1..n -> UpdateEntries] : n \in 0..MaxBatch}

\* bodies of PUT /contacts/{id}/
UpdateBodies ==
    {n @@ b @@ m : n \in Opt("name", {Str0}), b \in Opt("bookmarked", {TRUE}),
                   m \in Opt("contact_methods", UpdateBatches)}

\* bodies of POST /contacts/{id}/methods/ and PUT /contacts/{id}/methods/{method_id}/
MethodBodies ==
    {t @@ l @@ v @@ p :
        t \in Opt("method_type", {"", "email"}), l \in Opt("label", {StrW}),
        v \in Opt("value", {StrB}), p \in Opt("is_primary", {TRUE, FALSE})}

(* ------------------------------ responses ----------------------------- *)
\* status, the field the error message names ("" when none), and the 1-based entry
\* index the message names (0 when none)
Response(status, error, idx) == [status |-> status, error |-> error, idx |-> idx]

Ok(status) == Response(status, "", 0)

\* what a handler leaves behind: the store, the response, and a trace of the saves
\* (and, for an upload, of the rows) it went through
Outcome(cs, ms, nc, nm, r, log) ==
    [contacts |-> cs, methods |-> ms, nextContactId |-> nc, nextMethodId |-> nm,
     resp |-> r, log |-> log, rowlog |-> <<>>]

\* a request that is answered without touching the store
Rejected(r) == Outcome(contacts, methods, nextContactId, nextMethodId, r, <<>>)

(* ----------------------- ContactMethod.objects.create ----------------- *)
\* acc: [methods, nextMethodId, log, raised].  log has one entry per save made with
\* is_primary set: the saved id and the primaries of its (contact, type) right after.
Acc(ms, nm) == [methods |-> ms, nextMethodId |-> nm, log |-> <<>>, raised |-> FALSE]

ObjectsCreate(acc, rec) ==
    LET id == acc.nextMethodId
        ms == Save(acc.methods, id, rec)
    IN [acc EXCEPT !.methods = ms,
                   !.nextMethodId = id + 1,
                   !.log = IF rec.is_primary
                           THEN Append(@, [id |-> id, contact |-> rec.contact,
                                           method_type |-> rec.method_type,
                                           primaries |-> PrimariesOf(ms, rec.contact,
                                                                     rec.method_type)])
                           ELSE @]

\* the record built from a request entry; absent label is '', absent is_primary False
EntryRecord(cid, e) ==
    [contact |-> cid, method_type |-> e["method_type"], label |-> Get(e, "label", Str0),
     value |-> e["value"], is_primary |-> Get(e, "is_primary", FALSE)]

\* the loop `for method_data in ...: ContactMethod.objects.create(...)`; indexing a
\* missing key raises KeyError, which ends the loop with the earlier entries created
RECURSIVE CreateEach(_, _, _)
CreateEach(acc, cid, entries) ==
    IF entries = <<>> THEN acc
    ELSE LET e == Head(entries)
         IN IF "method_type" \notin DOMAIN e \/ "value" \notin DOMAIN e
            THEN [acc EXCEPT !.raised = TRUE]
            ELSE CreateEach(ObjectsCreate(acc, EntryRecord(cid, e)), cid, Tail(entries))

(* -------------------------- POST /contacts/ --------------------------- *)
\* the entry indices (1-based) that fail the validation loop, with the field named
EntryDefect(e) ==
    IF MissingOrEmpty(e, "method_type", "") THEN "method_type"
    ELSE IF MissingOrEmpty(e, "value", Str0) THEN "value"
    ELSE ""

\* a validation loop that reports the last offending entry
LastDefect(batch) ==
    LET bad == {i \in 1..Len(batch) : EntryDefect(batch[i]) # ""}
    IN IF bad = {} THEN 0 ELSE CHOOSE i \in bad : \A j \in bad : i >= j

\* the first entry the validation loop rejects (0 when none)
FirstDefect(batch) ==
    LET bad == {i \in 1..Len(batch) : EntryDefect(batch[i]) # ""}
    IN IF bad = {} THEN 0 ELSE CHOOSE i \in bad : \A j \in bad : i <= j

ContactListPost(data) ==
    IF data = NoKeys THEN Rejected(Response(400, "json", 0))
    ELSE IF MissingOrEmpty(data, "name", Str0) THEN Rejected(Response(400, "name", 0))
    ELSE IF Get(data, "contact_methods", <<>>) = <<>>
         THEN Rejected(Response(400, "contact_methods", 0))
    ELSE LET batch == data["contact_methods"]
             bad == FirstDefect(batch)
         IN IF bad # 0 THEN Rejected(Response(400, EntryDefect(batch[bad]), bad))
            ELSE LET cid == nextContactId
                     cs == Put(contacts, cid, [name |-> data["name"], bookmarked |-> FALSE])
                     acc == CreateEach(Acc(methods, nextMethodId), cid, batch)
                 IN Outcome(cs, acc.methods, cid + 1, acc.nextMethodId, Ok(201), acc.log)

(* ---------------------- /contacts/{contact_id}/ ----------------------- *)
\* an update that replaces the methods whether or not the body has contact_methods
ContactDetailPutAlwaysReplace(cid, data) ==
    IF cid \notin DOMAIN contacts THEN Rejected(Response(404, "contact", 0))
    ELSE IF data = NoKeys THEN Rejected(Response(400, "json", 0))
    ELSE LET contact == [name |-> Get(data, "name", contacts[cid].name),
                         bookmarked |-> Get(data, "bookmarked", contacts[cid].bookmarked)]
             acc == CreateEach(Acc(Drop(methods, MethodsOf(methods, cid)), nextMethodId),
                               cid, Get(data, "contact_methods", <<>>))
         IN IF acc.raised
            THEN Outcome(contacts, acc.methods, nextContactId, acc.nextMethodId,
                         Response(500, "KeyError", 0), acc.log)
            ELSE Outcome(Put(contacts, cid, contact), acc.methods, nextContactId,
                         acc.nextMethodId, Ok(200), acc.log)

\* ContactDetailView.put
ContactDetailPut(cid, data) ==
    IF cid \notin DOMAIN contacts THEN Rejected(Response(404, "contact", 0))
    ELSE IF data = NoKeys THEN Rejected(Response(400, "json", 0))
    ELSE LET contact == [name |-> Get(data, "name", contacts[cid].name),
                         bookmarked |-> Get(data, "bookmarked", contacts[cid].bookmarked)]
             acc == IF "contact_methods" \in DOMAIN data
                    THEN CreateEach(Acc(Drop(methods, MethodsOf(methods, cid)), nextMethodId),
                                    cid, data["contact_methods"])
                    ELSE Acc(methods, nextMethodId)
         IN IF acc.raised
            THEN \* KeyError leaves the handler before contact.save()
                 Outcome(contacts, acc.methods, nextContactId, acc.nextMethodId,
                         Response(500, "KeyError", 0), acc.log)
            ELSE Outcome(Put(contacts, cid, contact), acc.methods, nextContactId,
                         acc.nextMethodId, Ok(200), acc.log)

\* a delete that leaves the contact's methods behind
ContactDetailDeleteNoCascade(cid) ==
    IF cid \notin DOMAIN contacts THEN Rejected(Response(404, "contact", 0))
    ELSE Outcome(Drop(contacts, {cid}), methods, nextContactId, nextMethodId, Ok(204), <<>>)

\* ContactDetailView.delete; the foreign key is on_delete=CASCADE
ContactDetailDelete(cid) ==
    IF cid \notin DOMAIN contacts THEN Rejected(Response(404, "contact", 0))
    ELSE Outcome(Drop(contacts, {cid}), Drop(methods, MethodsOf(methods, cid)),
                 nextContactId, nextMethodId, Ok(204), <<>>)

\* ContactBookmarkView.post
ContactBookmarkPost(cid) ==
    IF cid \notin DOMAIN contacts THEN Rejected(Response(404, "contact", 0))
    ELSE Outcome([contacts EXCEPT ![cid].bookmarked = ~@], methods, nextContactId,
                 nextMethodId, Ok(200), <<>>)

(* ------------------ /contacts/{contact_id}/methods/... ---------------- *)
\* ContactMethodListView.post
ContactMethodListPost(cid, data) ==
    IF cid \notin DOMAIN contacts THEN Rejected(Response(404, "contact", 0))
    ELSE IF data = NoKeys THEN Rejected(Response(400, "json", 0))
    ELSE IF "method_type" \notin DOMAIN data THEN Rejected(Response(400, "method_type", 0))
    ELSE IF "value" \notin DOMAIN data THEN Rejected(Response(400, "value", 0))
    ELSE LET acc == ObjectsCreate(Acc(methods, nextMethodId), EntryRecord(cid, data))
         IN Outcome(contacts, acc.methods, nextContactId, acc.nextMethodId, Ok(201), acc.log)

\* an update that reads an is_primary the body does not name as false
UpdatedRecordDefaultFalse(old, data) ==
    [contact |-> old.contact,
     method_type |-> Get(data, "method_type", old.method_type),
     label |-> Get(data, "label", old.label),
     value |-> Get(data, "value", old.value),
     is_primary |-> Get(data, "is_primary", FALSE)]

\* the loaded method with the keys of the body written over its fields
UpdatedRecord(old, data) ==
    [contact |-> old.contact,
     method_type |-> Get(data, "method_type", old.method_type),
     label |-> Get(data, "label", old.label),
     value |-> Get(data, "value", old.value),
     is_primary |-> Get(data, "is_primary", old.is_primary)]

\* ContactMethodDetailView.put; the method is looked up by method_id alone
ContactMethodDetailPut(cid, mid, data) ==
    IF mid \notin DOMAIN methods THEN Rejected(Response(404, "method", 0))
    ELSE IF data = NoKeys THEN Rejected(Response(400, "json", 0))
    ELSE LET rec == UpdatedRecord(methods[mid], data)
             ms == Save(methods, mid, rec)
             log == IF rec.is_primary
                    THEN <<[id |-> mid, contact |-> rec.contact,
                            method_type |-> rec.method_type,
                            primaries |-> PrimariesOf(ms, rec.contact, rec.method_type)]>>
                    ELSE <<>>
         IN Outcome(contacts, ms, nextContactId, nextMethodId, Ok(200), log)

\* ContactMethodDetailView.delete; the method is looked up by method_id alone
ContactMethodDetailDelete(cid, mid) ==
    IF mid \notin DOMAIN methods THEN Rejected(Response(404, "method", 0))
    ELSE Outcome(contacts, Drop(methods, {mid}), nextContactId, nextMethodId, Ok(204), <<>>)

(* ----------------------------- export cell ---------------------------- *)
\* an encoding that marks the primary as ContactMethod.__str__ does, " (Primary)"
EncodeMethodAsStr(m) ==
    m.value
      \o (IF m.label # Str0 THEN <<" ", "(">> \o m.label \o <<")">> ELSE <<>>)
      \o (IF m.is_primary THEN <<" ", "(", "P", "r", "i", "m", "a", "r", "y", ")">> ELSE <<>>)

\* the text of one method in its column: value, " (label)" if labelled,
\* " [Primary]" if primary
EncodeMethod(m) ==
    m.value
      \o (IF m.label # Str0 THEN <<" ", "(">> \o m.label \o <<")">> ELSE <<>>)
      \o (IF m.is_primary THEN <<" ">> \o StrPrimaryTag ELSE <<>>)

\* '; '.join(...) over the methods of one type, in the order they are iterated
ExportCell(ms) == Join([i \in 1..Len(ms) |-> EncodeMethod(ms[i])], <<";", " ">>)

(* ----------------------------- import cell ---------------------------- *)
NonEmpty(s) == s # <<>>

\* val[:start] and val[start+1:end] as value and label when val has both
\* parentheses and start < end, val itself with no label otherwise
SplitLabel(val, start, end, is_primary) ==
    IF HasChar(val, "(") /\ HasChar(val, ")") /\ start < end
    THEN [value |-> Strip(SubSeq(val, 1, start - 1)),
          label |-> Strip(SubSeq(val, start + 1, end - 1)), is_primary |-> is_primary]
    ELSE [value |-> val, label |-> Str0, is_primary |-> is_primary]

\* the label parse of val, start and end being the last "(" and the last ")"
ParseLabel(val, is_primary) ==
    SplitLabel(val, RFind(val, "("), RFind(val, ")"), is_primary)

\* the piece with its primary tag taken off, then the label parse
ParsePrimary(seg, is_primary) ==
    ParseLabel(IF is_primary THEN Strip(Remove(seg, StrPrimaryTag)) ELSE seg, is_primary)

\* the parse of one ';'-separated piece (already stripped, non-empty)
DecodeSegment(seg) ==
    ParsePrimary(seg, HasChar(seg, "[") /\ HasChar(seg, "]") /\ Contains(seg, StrPrimaryTag))

HasValue(d) == d.value # <<>>

\* a cell test that does not recognise the empty-cell text 'nan'
CellIsBlankNoNan(cell) == Strip(cell) = <<>>

\* not (value and value != 'nan'), for a cell or a Name
CellIsBlank(cell) == Strip(cell) = <<>> \/ Strip(cell) = StrNan

\* [v.strip() for v in values]
StripEach(values) == [i \in 1..Len(values) |-> Strip(values[i])]

\* the parse of each piece
DecodeEach(segs) == [i \in 1..Len(segs) |-> DecodeSegment(segs[i])]

\* the methods a cell yields, in order: [value, label, is_primary]
DecodeCell(cell) ==
    IF CellIsBlank(cell) THEN <<>>
    ELSE SelectSeq(DecodeEach(SelectSeq(StripEach(Split(Strip(cell), ";")), NonEmpty)),
                   HasValue)

\* the columns read for methods, in the order of method_mappings
MethodColumns == <<"Phone", "Email", "Social Media", "Address">>

method_mappings ==
    ("Phone" :> "phone") @@ ("Email" :> "email")
      @@ ("Social Media" :> "social_media") @@ ("Address" :> "address")

\* the methods a row yields, in creation order: [method_type, value, label, is_primary]
\* the methods ds of a cell with the type of their column
OfType(method_type, ds) ==
    [i \in 1..Len(ds) |->
        [method_type |-> method_type, value |-> ds[i].value,
         label |-> ds[i].label, is_primary |-> ds[i].is_primary]]

\* the methods the row yields for the column excel_col
DecodeColumn(columns, row, excel_col) ==
    OfType(method_mappings[excel_col],
           IF excel_col \in columns THEN DecodeCell(row[excel_col]) ELSE <<>>)

RECURSIVE DecodeRow(_, _, _)
DecodeRow(columns, row, k) ==
    IF k > Len(MethodColumns) THEN <<>>
    ELSE DecodeColumn(columns, row, MethodColumns[k]) \o DecodeRow(columns, row, k + 1)

\* str(row.get('Bookmarked', 'No')).strip().lower() == 'yes'
RowBookmarked(columns, row) ==
    Lower(Strip(IF "Bookmarked" \in columns THEN row["Bookmarked"] ELSE StrNo))
        = <<"y", "e", "s">>

(* ------------------------ POST /contacts/import/ ---------------------- *)
\* acc of the row loop: the store, imported_count, skipped_count, errors (the
\* spreadsheet row numbers reported), and per row what the row did
ImportAcc ==
    [contacts |-> contacts, methods |-> methods, nextContactId |-> nextContactId,
     nextMethodId |-> nextMethodId, log |-> <<>>, raised |-> FALSE,
     imported |-> 0, skipped |-> 0, errors |-> <<>>, rowlog |-> <<>>]

RECURSIVE CreateDecoded(_, _, _)
CreateDecoded(acc, cid, ds) ==
    IF ds = <<>> THEN acc
    ELSE CreateDecoded(
             ObjectsCreate(acc, [contact |-> cid, method_type |-> Head(ds).method_type,
                                 label |-> Head(ds).label, value |-> Head(ds).value,
                                 is_primary |-> Head(ds).is_primary]),
             cid, Tail(ds))

\* the methods of the row added to contact cid, and the row counted as imported
AddMethods(acc, cid, ds) == [CreateDecoded(acc, cid, ds) EXCEPT !.imported = @ + 1]

\* get_or_create finds no contact of the name: one is created with the defaults
ImportCreated(acc, cid, name, bookmarked, ds) ==
    AddMethods([acc EXCEPT !.contacts = Put(@, cid, [name |-> name,
                                                     bookmarked |-> bookmarked]),
                           !.nextContactId = @ + 1],
               cid, ds)

\* get_or_create finds contact cid: its bookmark flag is set and its methods cleared
ImportExisting(acc, cid, bookmarked, ds) ==
    AddMethods([acc EXCEPT !.contacts[cid].bookmarked = bookmarked,
                           !.methods = Drop(@, MethodsOf(@, cid))],
               cid, ds)

\* get_or_create(name=name) with the contacts matches having that name, and what
\* follows it in the row loop
GetOrCreate(acc, columns, row, index, name, matches) ==
    IF Cardinality(matches) > 1
    THEN \* get_or_create raises MultipleObjectsReturned; the row's except clause
         \* records it
         [acc EXCEPT !.errors = Append(@, index + 2), !.skipped = @ + 1]
    ELSE IF matches = {}
    THEN ImportCreated(acc, acc.nextContactId, name, RowBookmarked(columns, row),
                       DecodeRow(columns, row, 1))
    ELSE ImportExisting(acc, CHOOSE c \in matches : TRUE, RowBookmarked(columns, row),
                        DecodeRow(columns, row, 1))

\* the contacts of acc named name
NamedContacts(acc, name) == {c \in DOMAIN acc.contacts : acc.contacts[c].name = name}

\* the row loop for a row whose name is name
ImportNamed(acc, columns, row, index, name) ==
    GetOrCreate(acc, columns, row, index, name, NamedContacts(acc, name))

\* the body of the row loop; index is the 0-based row index
ImportRow(acc, columns, row, index) ==
    IF CellIsBlank(row["Name"]) THEN [acc EXCEPT !.skipped = @ + 1]
    ELSE ImportNamed(acc, columns, row, index, Strip(row["Name"]))

StoreOf(acc) == <<acc.contacts, acc.methods, acc.nextContactId, acc.nextMethodId>>

\* a, the loop state after a row that found acc, with what the row did recorded
RowLogged(acc, a) ==
    [a EXCEPT !.rowlog = Append(@, [imported |-> a.imported - acc.imported,
                                    skipped |-> a.skipped - acc.skipped,
                                    errors |-> Len(a.errors) - Len(acc.errors),
                                    changed |-> StoreOf(a) # StoreOf(acc)])]

RECURSIVE ImportRows(_, _, _, _)
ImportRows(acc, columns, rows, index) ==
    IF index >= Len(rows) THEN acc
    ELSE ImportRows(RowLogged(acc, ImportRow(acc, columns, rows[index + 1], index)),
                    columns, rows, index + 1)

\* the response and the store once the row loop has ended in acc
ImportResult(acc) ==
    [Outcome(acc.contacts, acc.methods, acc.nextContactId, acc.nextMethodId,
             [status |-> 200, error |-> "", idx |-> 0,
              imported |-> acc.imported, skipped |-> acc.skipped,
              errors |-> SubSeq(acc.errors, 1, IF Len(acc.errors) < 10
                                               THEN Len(acc.errors) ELSE 10)],
             acc.log)
       EXCEPT !.rowlog = acc.rowlog]

\* ContactImportView.post, for an uploaded file that reads as a spreadsheet
ContactImportPost(file) ==
    IF "Name" \notin file.columns THEN Rejected(Response(400, "Name", 0))
    ELSE ImportResult(ImportRows(ImportAcc, file.columns, file.rows, 0))

\* the spreadsheets uploaded
AllColumns == {"Name", "Bookmarked", "Phone", "Email", "Social Media", "Address"}

SheetRow(name, bookmarked, phone, email, social, address) ==
    [c \in AllColumns |->
        CASE c = "Name" -> name [] c = "Bookmarked" -> bookmarked
          [] c = "Phone" -> phone [] c = "Email" -> email
          [] c = "Social Media" -> social [] c = "Address" -> address]

SheetRows ==
    { \* Name is blanks only
      SheetRow(<<" ">>, StrYes, StrA, StrNan, StrNan, StrNan),
      \* Name is an empty cell
      SheetRow(StrNan, StrNan, StrNan, StrB, StrNan, StrNan),
      \* "a " / Yes / "a (W) [Primary]; b"
      SheetRow(<<"a", " ">>, StrYes,
               <<"a", " ", "(", "W", ")", " ">> \o StrPrimaryTag \o <<";", " ", "b">>,
               StrNan, StrNan, StrNan),
      \* "a" / empty / "b [Primary];a [Primary]" / "b"
      SheetRow(StrA, StrNan,
               <<"b", " ">> \o StrPrimaryTag \o <<";", "a", " ">> \o StrPrimaryTag,
               StrB, StrNan, StrNan),
      \* "b" / yes / - / - / "a" / "a (W)"
      SheetRow(StrB, <<"y", "e", "s">>, StrNan, StrNan, StrA,
               <<"a", " ", "(", "W", ")">>) }

ColumnSets == {AllColumns, {"Name", "Phone"}, AllColumns \ {"Name"}}

RowSeqs == UNION {[1..n -> SheetRows] : n \in 0..MaxRows}

Files ==
    {[columns |-> cols, rows |-> [i \in 1..Len(rs) |-> [c \in cols |-> rs[i][c]]]] :
        cols \in ColumnSets, rs \in RowSeqs}

(* ------------------ Contact.primary_email / primary_phone ------------- *)
\* Meta.ordering = ['method_type', '-is_primary', 'label'] within one method_type:
\* m comes strictly before n
OrderedBefore(ms, m, n) ==
    \/ ms[m].is_primary /\ ~ms[n].is_primary
    \/ ms[m].is_primary = ms[n].is_primary /\ TextLess(ms[m].label, ms[n].label)

\* an ordering by insertion (id) instead
FirstsById(ms, ids) == {m \in ids : \A n \in ids : m <= n}

\* the rows QuerySet.first() may return for the rows ids: those no row is ordered
\* before; the store leaves the order of rows with equal keys open
Firsts(ms, ids) == {m \in ids : \A n \in ids : ~OrderedBefore(ms, n, m)}

NoValue == [none |-> TRUE, value |-> Str0]
SomeValue(v) == [none |-> FALSE, value |-> v]

\* the values the property may return for contact cid and the given type
PrimaryValues(ms, cid, type) ==
    LET typed == {m \in MethodsOf(ms, cid) : ms[m].method_type = type}
        flagged == {m \in typed : ms[m].is_primary}
    IN IF flagged # {} THEN {SomeValue(ms[m].value) : m \in Firsts(ms, flagged)}
       ELSE IF typed # {} THEN {SomeValue(ms[m].value) : m \in Firsts(ms, typed)}
       ELSE {NoValue}

(* ------------------------------ requests ------------------------------ *)
\* what is kept of the request served last: the endpoint, the ids of its URL and
\* whether its body carries a contact_methods array
Request(op, cid, mid, keys) ==
    [op |-> op, contact_id |-> cid, method_id |-> mid,
     has_methods |-> "contact_methods" \in keys, has_primary |-> "is_primary" \in keys]

\* the store a handler leaves, with the request and its response
Commit(request, out) ==
    /\ contacts' = out.contacts
    /\ methods' = out.methods
    /\ nextContactId' = out.nextContactId
    /\ nextMethodId' = out.nextMethodId
    /\ req' = request
    /\ resp' = out.resp

\* one request served from start to end, requests being served one at a time; ids are
\* handed out up to MaxContactId / MaxMethodId
Serve(request, out) ==
    /\ served < MaxRequests
    /\ served' = served + 1
    /\ out.nextContactId <= MaxContactId + 1
    /\ out.nextMethodId <= MaxMethodId + 1
    /\ Commit(request, out)
    /\ UNCHANGED <<procs, codec>>

ContactIds == 1..MaxContactId
MethodIds == 1..MaxMethodId

CreateContact ==
    \E data \in CreateBodies :
        Serve(Request("contact_create", 0, 0, DOMAIN data), ContactListPost(data))

UpdateContact ==
    \E cid \in ContactIds, data \in UpdateBodies :
        Serve(Request("contact_update", cid, 0, DOMAIN data), ContactDetailPut(cid, data))

DeleteContact ==
    \E cid \in ContactIds :
        Serve(Request("contact_delete", cid, 0, {}), ContactDetailDelete(cid))

ToggleBookmark ==
    \E cid \in ContactIds :
        Serve(Request("bookmark", cid, 0, {}), ContactBookmarkPost(cid))

CreateMethod ==
    \E cid \in ContactIds, data \in MethodBodies :
        Serve(Request("method_create", cid, 0, DOMAIN data), ContactMethodListPost(cid, data))

UpdateMethod ==
    \E cid \in ContactIds, mid \in MethodIds, data \in MethodBodies :
        Serve(Request("method_update", cid, mid, DOMAIN data),
              ContactMethodDetailPut(cid, mid, data))

DeleteMethod ==
    \E cid \in ContactIds, mid \in MethodIds :
        Serve(Request("method_delete", cid, mid, {}),
              ContactMethodDetailDelete(cid, mid))

\* reading contact.primary_email / contact.primary_phone
ReadPrimary ==
    \E cid \in DOMAIN contacts, type \in {"email", "phone"} :
        \E v \in PrimaryValues(methods, cid, type) :
            Serve(Request("primary_" \o type, cid, 0, {}),
                  Rejected([status |-> 0, error |-> "", idx |-> 0, value |-> v]))

ImportContacts ==
    \E file \in Files :
        Serve(Request("import", 0, 0, file.columns), ContactImportPost(file))

Init ==
    /\ contacts = <<>>
    /\ methods = <<>>
    /\ nextContactId = 1
    /\ nextMethodId = 1
    /\ req = Request("none", 0, 0, {})
    /\ resp = Ok(0)
    /\ served = 0
    /\ procs = <<>>
    /\ codec = <<>>

Next ==
    \/ CreateContact
    \/ UpdateContact
    \/ DeleteContact
    \/ ToggleBookmark
    \/ CreateMethod
    \/ UpdateMethod
    \/ DeleteMethod
    \/ ImportContacts
    \/ ReadPrimary

Spec == Init /\ [][Next]_vars

(* ------------------- two requests saving concurrently ------------------ *)
\* Neither the handlers nor ContactMethod.save open a transaction, so the statements
\* one request issues (the SELECT that loads its method, the UPDATE that demotes the
\* siblings, the INSERT or UPDATE of its own row) each commit on their own and
\* interleave with those of another request.  Both requests address contact 1.
Workers == {1, 2}

\* the stores the two requests start from: contact 1 with methods 1 and 2
ConcMethods ==
    {ms \in [1..2 -> [contact : {1}, method_type : {"phone", "email"}, label : {Str0},
                     value : {StrA}, is_primary : BOOLEAN]] :
        ~(ms[1].is_primary /\ ms[2].is_primary /\ ms[1].method_type = ms[2].method_type)}

\* POST /contacts/1/methods/ bodies and PUT /contacts/1/methods/{id}/ bodies
ConcCreateBodies ==
    {("method_type" :> t) @@ ("value" :> StrB) @@ p :
        t \in {"phone", "email"}, p \in Opt("is_primary", {TRUE})}

ConcUpdateBodies ==
    {t @@ p : t \in Opt("method_type", {"email"}), p \in Opt("is_primary", {TRUE, FALSE})}
        \ {NoKeys}

ConcRequests ==
    {[op |-> "method_create", id |-> 0, data |-> d] : d \in ConcCreateBodies}
      \cup {[op |-> "method_update", id |-> m, data |-> d] : m \in 1..2, d \in ConcUpdateBodies}

InitConc ==
    /\ contacts = (1 :> [name |-> StrA, bookmarked |-> FALSE])
    /\ methods \in ConcMethods
    /\ nextContactId = 2
    /\ nextMethodId = 3
    /\ served = 0
    /\ req = Request("none", 0, 0, {})
    /\ resp = Ok(0)
    /\ codec = <<>>
    /\ procs \in {ps \in [Workers -> {[pc |-> "start", op |-> r.op, id |-> r.id,
                                       data |-> r.data, rec |-> <<>>] : r \in ConcRequests}] :
                    ps[1].op = "method_update" /\ ps[2].op = "method_update"
                        => ps[1].id # ps[2].id}

\* the handler up to save(): the instance in memory (get_method and the field
\* assignments, or the arguments of objects.create)
ConcLoad(p) ==
    /\ procs[p].pc = "start"
    /\ procs' = [procs EXCEPT
                   ![p].pc = "loaded",
                   ![p].rec = IF procs[p].op = "method_update"
                              THEN UpdatedRecord(methods[procs[p].id], procs[p].data)
                              ELSE EntryRecord(1, procs[p].data)]
    /\ UNCHANGED <<contacts, methods, nextContactId, nextMethodId, served, req, resp, codec>>

\* save(): the UPDATE that clears is_primary on the other primaries of the type
ConcDemote(p) ==
    /\ procs[p].pc = "loaded"
    /\ procs[p].rec.is_primary
    /\ methods' = DemoteSiblings(methods, procs[p].id, procs[p].rec)
    /\ procs' = [procs EXCEPT ![p].pc = "demoted"]
    /\ UNCHANGED <<contacts, nextContactId, nextMethodId, served, req, resp, codec>>

\* save(): super().save(), the INSERT or UPDATE of the instance's own row
ConcWrite(p) ==
    /\ \/ procs[p].pc = "demoted"
       \/ procs[p].pc = "loaded" /\ ~procs[p].rec.is_primary
    /\ LET id == IF procs[p].op = "method_create" THEN nextMethodId ELSE procs[p].id
       IN /\ methods' = Put(methods, id, procs[p].rec)
          /\ nextMethodId' = IF procs[p].op = "method_create" THEN nextMethodId + 1
                             ELSE nextMethodId
          /\ procs' = [procs EXCEPT ![p].pc = "done", ![p].id = id]
    /\ UNCHANGED <<contacts, nextContactId, served, req, resp, codec>>

NextConc == \E p \in Workers : ConcLoad(p) \/ ConcDemote(p) \/ ConcWrite(p)

SpecConc == InitConc /\ [][NextConc]_vars

(* --------------------- export, then import of the sheet ---------------- *)
\* the iteration orders contact.contact_methods.all() may produce for the methods
\* ids: Meta.ordering, the order of rows with equal keys being open
RECURSIVE Orderings(_, _)
Orderings(ms, ids) ==
    IF ids = {} THEN {<<>>}
    ELSE UNION {{<<m>> \o rest : rest \in Orderings(ms, ids \ {m})} : m \in Firsts(ms, ids)}

\* the methods of contact cid whose display name is the column's
OfColumn(ms, cid, col) ==
    {m \in MethodsOf(ms, cid) : ms[m].method_type = method_mappings[col]}

\* the iteration orders of the four columns' methods
ColumnOrders(ms, cid) ==
    {o \in [DOMAIN method_mappings -> UNION {Orderings(ms, OfColumn(ms, cid, col)) :
                                                col \in DOMAIN method_mappings}] :
        \A col \in DOMAIN method_mappings : o[col] \in Orderings(ms, OfColumn(ms, cid, col))}

\* what is written of a method
Written(ms, order) ==
    [i \in 1..Len(order) |-> [value |-> ms[order[i]].value, label |-> ms[order[i]].label,
                              is_primary |-> ms[order[i]].is_primary]]

\* the row ContactExportView.get writes for contact cid, its methods iterated as orders
ExportRow(cs, ms, cid, orders) ==
    [c \in AllColumns |->
        CASE c = "Name" -> cs[cid].name
          [] c = "Bookmarked" -> IF cs[cid].bookmarked THEN StrYes ELSE StrNo
          [] OTHER -> ExportCell(Written(ms, orders[c]))]

\* str() of a cell read back from the sheet: an empty cell reads as NaN
ReadCell(cell) == IF cell = <<>> THEN StrNan ELSE cell

\* the contacts whose sheet is exported and imported again: contact 1 with up to
\* MaxCodecMethods phone and email methods, at most one primary per type
CodecValues == {StrA, StrNan, <<"a", ";", "b">>, <<"a", " ">>, <<"(", "a", ")">>}

CodecLabels == {Str0, StrW, <<"(">>, <<" ", "W">>}

CodecMethods ==
    UNION {{ms \in [1..n -> [contact : {1}, method_type : {"phone", "email"},
                             label : CodecLabels, value : CodecValues,
                             is_primary : BOOLEAN]] :
               \A i, j \in 1..n :
                   (/\ ms[i].is_primary /\ ms[j].is_primary
                    /\ ms[i].method_type = ms[j].method_type) => i = j} :
           n \in 0..MaxCodecMethods}

InitCodec ==
    /\ contacts = (1 :> [name |-> StrA, bookmarked |-> FALSE])
    /\ methods \in CodecMethods
    /\ nextContactId = 2
    /\ nextMethodId = Len(methods) + 1
    /\ served = 0
    /\ req = Request("none", 0, 0, {})
    /\ resp = Ok(0)
    /\ procs = <<>>
    /\ codec = [pc |-> "stored", written |-> <<>>, sheet |-> <<>>]

\* GET /contacts/export/
ExportContacts ==
    /\ codec.pc = "stored"
    /\ \E orders \in ColumnOrders(methods, 1) :
          codec' = [pc |-> "exported",
                    written |-> [col \in DOMAIN method_mappings |->
                                    Written(methods, orders[col])],
                    sheet |-> <<ExportRow(contacts, methods, 1, orders)>>]
    /\ UNCHANGED <<contacts, methods, nextContactId, nextMethodId, served, req, resp, procs>>

\* POST /contacts/import/ with the exported sheet
ImportExported ==
    /\ codec.pc = "exported"
    /\ LET file == [columns |-> AllColumns,
                    rows |-> [i \in 1..Len(codec.sheet) |->
                                 [c \in AllColumns |-> ReadCell(codec.sheet[i][c])]]]
       IN Commit(Request("import", 0, 0, file.columns), ContactImportPost(file))
    /\ codec' = [codec EXCEPT !.pc = "imported"]
    /\ UNCHANGED <<served, procs>>

NextCodec == ExportContacts \/ ImportExported

SpecCodec == InitCodec /\ [][NextCodec]_vars

(* ============================== properties ============================ *)
OutStore(out) == <<out.contacts, out.methods, out.nextContactId, out.nextMethodId>>

\* a further request can be served from this state
Serving == served < MaxRequests

\* C1: in every reachable state each (contact, method_type) pair has at most one
\* method with is_primary set.
C1_AtMostOnePrimary ==
    \A m, n \in DOMAIN methods :
        (/\ methods[m].contact = methods[n].contact
         /\ methods[m].method_type = methods[n].method_type
         /\ methods[m].is_primary /\ methods[n].is_primary) => m = n

\* a method update has just left its method primary while a sibling of the same
\* contact and type is stored
C1_Witness ==
    /\ req.op = "method_update" /\ resp.status = 200
    /\ req.method_id \in DOMAIN methods
    /\ methods[req.method_id].is_primary
    /\ \E n \in DOMAIN methods :
          /\ n # req.method_id
          /\ methods[n].contact = methods[req.method_id].contact
          /\ methods[n].method_type = methods[req.method_id].method_type

\* every save made with is_primary set left the saved method the only primary of its
\* contact and type
SavesExact(out) ==
    \A i \in 1..Len(out.log) : out.log[i].primaries = {out.log[i].id}

\* the batch has two or more entries of the type of its last entry, which is primary
LastOfTypePrimary(batch) ==
    /\ Len(batch) >= 2
    /\ Get(batch[Len(batch)], "is_primary", FALSE)
    /\ \E i \in 1..(Len(batch) - 1) :
          batch[i]["method_type"] = batch[Len(batch)]["method_type"]

\* C2: whenever a method is saved with is_primary set (in a contact-creation or
\* contact-update batch, by create_for_contact or by a method update), right after
\* that save it is the one and only primary method of its contact and type; and a
\* contact created with two or more methods of one type, the last one primary, ends
\* with exactly that last method primary for the type.
C2_SavedPrimaryIsTheOnlyOne ==
    Serving =>
    /\ \A data \in CreateBodies :
          LET out == ContactListPost(data)
          IN /\ SavesExact(out)
             /\ (out.resp.status = 201 /\ LastOfTypePrimary(data["contact_methods"]))
                  => PrimariesOf(out.methods, nextContactId,
                                 data["contact_methods"][Len(data["contact_methods"])]
                                     ["method_type"])
                       = {out.nextMethodId - 1}
    /\ \A cid \in ContactIds, data \in UpdateBodies : SavesExact(ContactDetailPut(cid, data))
    /\ \A cid \in ContactIds, data \in MethodBodies :
          /\ SavesExact(ContactMethodListPost(cid, data))
          /\ \A mid \in MethodIds : SavesExact(ContactMethodDetailPut(cid, mid, data))

\* a contact was just created with two methods of one type, the later one primary
C2_Witness ==
    /\ req.op = "contact_create" /\ resp.status = 201
    /\ \E m, n \in MethodsOf(methods, nextContactId - 1) :
          /\ m < n /\ n = nextMethodId - 1
          /\ methods[m].method_type = methods[n].method_type
          /\ methods[n].is_primary /\ ~methods[m].is_primary

\* an entry that lacks a non-empty method_type or a non-empty value
Offending(e) ==
    \/ "method_type" \notin DOMAIN e \/ e["method_type"] = ""
    \/ "value" \notin DOMAIN e \/ e["value"] = Str0

\* C4: creating a contact fails with status 400 when the name is missing or empty,
\* when contact_methods is missing or empty, or when an entry lacks a non-empty
\* method_type or value (the error then names the 1-based index of the first such
\* entry); in each of these failures the store is unchanged.
C4_CreateRejectsAndKeepsStore ==
    Serving =>
    \A data \in CreateBodies :
        LET out == ContactListPost(data)
            nameBad == "name" \notin DOMAIN data \/ data["name"] = Str0
            batch == IF "contact_methods" \in DOMAIN data THEN data["contact_methods"]
                     ELSE <<>>
            bad == {i \in 1..Len(batch) : Offending(batch[i])}
        IN (nameBad \/ batch = <<>> \/ bad # {}) =>
              /\ out.resp.status = 400
              /\ OutStore(out) = store
              /\ (~nameBad /\ bad # {}) =>
                    /\ out.resp.idx \in bad
                    /\ \A j \in bad : out.resp.idx <= j

\* a creation was just refused because its second entry has no value
C4_Witness ==
    /\ req.op = "contact_create" /\ resp.status = 400
    /\ resp.error = "value" /\ resp.idx = 2
    /\ contacts # <<>>

\* C5: a successful PUT on a contact whose body has no contact_methods key leaves
\* every stored method as it was (same ids, type, label, value, is_primary); one
\* whose body has contact_methods: [] leaves the contact with no method.
C5_UpdateKeepsOrClearsMethods ==
    Serving =>
    \A cid \in ContactIds, data \in UpdateBodies :
        LET out == ContactDetailPut(cid, data)
        IN out.resp.status = 200 =>
              /\ "contact_methods" \notin DOMAIN data => out.methods = methods
              /\ ("contact_methods" \in DOMAIN data /\ data["contact_methods"] = <<>>)
                    => MethodsOf(out.methods, cid) = {}

\* a PUT without contact_methods has just succeeded on a contact that has methods
C5_Witness ==
    /\ req.op = "contact_update" /\ resp.status = 200 /\ ~req.has_methods
    /\ MethodsOf(methods, req.contact_id) # {}

\* C6: deleting a contact removes all of its methods, and in every reachable state
\* every stored method references a stored contact.
C6_NoOrphanMethods ==
    /\ \A m \in DOMAIN methods : methods[m].contact \in DOMAIN contacts
    /\ \A cid \in DOMAIN contacts :
          LET out == ContactDetailDelete(cid)
          IN /\ cid \notin DOMAIN out.contacts
             /\ MethodsOf(out.methods, cid) = {}

\* the second request of the run deleted the contact that owned every method created
C6_Witness ==
    /\ served = 2 /\ req.op = "contact_delete" /\ resp.status = 204
    /\ nextMethodId > 1 /\ methods = <<>>

\* the methods of the contact and type that was read
ReadTyped ==
    {m \in MethodsOf(methods, req.contact_id) :
        "primary_" \o methods[m].method_type = req.op}

\* C7 as stated: primary_email / primary_phone returns the value of the method
\* flagged primary when there is one, otherwise the value of the first method of
\* that type in insertion order, otherwise null.
C7_FallbackIsFirstInserted ==
    req.op \in {"primary_email", "primary_phone"} =>
        LET flagged == {m \in ReadTyped : methods[m].is_primary}
        IN IF flagged # {} THEN \E m \in flagged : resp.value = SomeValue(methods[m].value)
           ELSE IF ReadTyped # {}
                THEN \E m \in ReadTyped : /\ \A n \in ReadTyped : m <= n
                                          /\ resp.value = SomeValue(methods[m].value)
           ELSE resp.value = NoValue

\* C7 (amended): primary_email / primary_phone returns the value of the method
\* flagged primary when there is one, otherwise the value of a method of that type
\* whose label is least (the first in the default ordering by label, not by
\* insertion), otherwise null.
C7_FallbackIsLeastLabel ==
    req.op \in {"primary_email", "primary_phone"} =>
        LET flagged == {m \in ReadTyped : methods[m].is_primary}
        IN IF flagged # {} THEN \E m \in flagged : resp.value = SomeValue(methods[m].value)
           ELSE IF ReadTyped # {}
                THEN \E m \in ReadTyped :
                        /\ \A n \in ReadTyped : ~TextLess(methods[n].label, methods[m].label)
                        /\ resp.value = SomeValue(methods[m].value)
           ELSE resp.value = NoValue

\* the property was read for a type with no primary, where the method with the least
\* label was inserted after one with another value
C7_Witness ==
    /\ req.op \in {"primary_email", "primary_phone"}
    /\ \A m \in ReadTyped : ~methods[m].is_primary
    /\ \E m, n \in ReadTyped :
          /\ m < n /\ TextLess(methods[n].label, methods[m].label)
          /\ methods[m].value # methods[n].value
          /\ resp.value = SomeValue(methods[n].value)

\* the stored methods of contact cid in creation order, as [method_type, value, label]
RECURSIVE InIdOrder(_, _)
InIdOrder(ms, ids) ==
    IF ids = {} THEN <<>>
    ELSE LET m == CHOOSE k \in ids : \A n \in ids : k <= n
         IN <<[method_type |-> ms[m].method_type, value |-> ms[m].value,
               label |-> ms[m].label]>> \o InIdOrder(ms, ids \ {m})

RowMethods(columns, row) ==
    LET ds == DecodeRow(columns, row, 1)
    IN [i \in 1..Len(ds) |->
           [method_type |-> ds[i].method_type, value |-> ds[i].value, label |-> ds[i].label]]

\* the Name of the row is blank or the literal "nan"
BlankName(row) == Strip(row["Name"]) = Str0 \/ Strip(row["Name"]) = StrNan

\* row i is the last row of the sheet with its Name
LastWithName(rows, i) ==
    \A j \in (i + 1)..Len(rows) : Strip(rows[j]["Name"]) # Strip(rows[i]["Name"])

\* C9: importing a row whose Name matches an existing contact replaces rather than
\* appends: after the row that contact's bookmark flag is the one parsed from the row,
\* its methods are exactly those decoded from the row (the methods stored before are
\* gone), and no further contact with that name is created.
C9_ImportReplacesByName ==
    Serving =>
    \A file \in Files :
        "Name" \in file.columns =>
            LET out == ContactImportPost(file)
            IN \A i \in 1..Len(file.rows) :
                  LET row == file.rows[i]
                      named == {c \in DOMAIN contacts : contacts[c].name = Strip(row["Name"])}
                  IN (~BlankName(row) /\ named # {} /\ LastWithName(file.rows, i)) =>
                        /\ {c \in DOMAIN out.contacts :
                               out.contacts[c].name = Strip(row["Name"])} = named
                        /\ \A c \in named :
                              /\ out.contacts[c].bookmarked = RowBookmarked(file.columns, row)
                              /\ MethodsOf(out.methods, c) \cap DOMAIN methods = {}
                              /\ InIdOrder(out.methods, MethodsOf(out.methods, c))
                                    = RowMethods(file.columns, row)

\* the same, for a Name that exactly one stored contact has
C9_ImportReplacesUniqueName ==
    Serving =>
    \A file \in Files :
        "Name" \in file.columns =>
            LET out == ContactImportPost(file)
            IN \A i \in 1..Len(file.rows) :
                  LET row == file.rows[i]
                      named == {c \in DOMAIN contacts : contacts[c].name = Strip(row["Name"])}
                  IN (~BlankName(row) /\ Cardinality(named) = 1 /\ LastWithName(file.rows, i)) =>
                        /\ {c \in DOMAIN out.contacts :
                               out.contacts[c].name = Strip(row["Name"])} = named
                        /\ \A c \in named :
                              /\ out.contacts[c].bookmarked = RowBookmarked(file.columns, row)
                              /\ MethodsOf(out.methods, c) \cap DOMAIN methods = {}
                              /\ InIdOrder(out.methods, MethodsOf(out.methods, c))
                                    = RowMethods(file.columns, row)

\* C10: in an import, a row whose Name is blank or the literal "nan" is skipped: it
\* adds one to the skipped count and nothing to the imported count or to the errors,
\* it changes no contact and no method, and the rows after it are still processed.
C10_BlankNameRowIsSkipped ==
    Serving =>
    \A file \in Files :
        "Name" \in file.columns =>
            LET out == ContactImportPost(file)
            IN /\ Len(out.rowlog) = Len(file.rows)
               /\ out.resp.imported + out.resp.skipped = Len(file.rows)
               /\ \A i \in 1..Len(file.rows) :
                     BlankName(file.rows[i]) =>
                        out.rowlog[i] = [imported |-> 0, skipped |-> 1, errors |-> 0,
                                         changed |-> FALSE]

\* an import has just skipped a row without an error and imported another
C10_Witness ==
    /\ req.op = "import" /\ resp.status = 200
    /\ resp.skipped = 1 /\ resp.imported = 1 /\ resp.errors = <<>>

\* both requests have finished, each having saved a different method of contact 1,
\* of one type, with is_primary set
BothSavedPrimary ==
    /\ \A p \in Workers : procs[p].pc = "done" /\ procs[p].rec.is_primary
    /\ procs[1].rec.method_type = procs[2].rec.method_type
    /\ procs[1].id # procs[2].id

\* C3: when two concurrent requests each save a different method of the same contact
\* and type with is_primary set, the demotion and the write of each are atomic, so
\* in every interleaving the final state has exactly one primary method of the type.
C3_ConcurrentSavesLeaveOnePrimary ==
    BothSavedPrimary =>
        Cardinality(PrimariesOf(methods, 1, procs[1].rec.method_type)) = 1

\* the methods of contact 1 stored for a column, in creation order
RECURSIVE StoredInIdOrder(_, _)
StoredInIdOrder(ms, ids) ==
    IF ids = {} THEN <<>>
    ELSE LET m == CHOOSE k \in ids : \A n \in ids : k <= n
         IN <<[value |-> ms[m].value, label |-> ms[m].label,
               is_primary |-> ms[m].is_primary]>> \o StoredInIdOrder(ms, ids \ {m})

RoundTrips(col) ==
    StoredInIdOrder(methods, OfColumn(methods, 1, col)) = codec.written[col]

NoBrackets(t) == \A c \in {"(", ")", "[", "]"} : ~HasChar(t, c)

\* text without parentheses, brackets or semicolons that does not start or end with
\* white space
PlainText(t) == NoBrackets(t) /\ ~HasChar(t, ";") /\ Strip(t) = t

\* C8 as stated: for a contact whose method values contain no parentheses or
\* brackets, importing the cell that export wrote for a method-type column yields
\* the same methods of that type, with the same value, label and is_primary.
C8_RoundTripWithoutBrackets ==
    codec.pc = "imported" =>
        \A col \in DOMAIN method_mappings :
            (\A i \in 1..Len(codec.written[col]) : NoBrackets(codec.written[col][i].value))
                => RoundTrips(col)

\* C8 (amended): the same, for a contact whose method values and labels contain no
\* parentheses, brackets or semicolons and no leading or trailing white space, whose
\* values are not empty, and whose cell for the column is not the text "nan".
C8_RoundTripOfPlainText ==
    codec.pc = "imported" =>
        \A col \in DOMAIN method_mappings :
            (/\ \A i \in 1..Len(codec.written[col]) :
                   /\ PlainText(codec.written[col][i].value)
                   /\ PlainText(codec.written[col][i].label)
                   /\ codec.written[col][i].value # Str0
             /\ ExportCell(codec.written[col]) # StrNan)
                => RoundTrips(col)

\* a sheet with a cell such as "a (W) [Primary]; a" has been imported again
C8_Witness ==
    /\ codec.pc = "imported"
    /\ \E col \in DOMAIN method_mappings :
          /\ Len(codec.written[col]) = 2
          /\ codec.written[col][1] = [value |-> StrA, label |-> StrW, is_primary |-> TRUE]
          /\ codec.written[col][2] = [value |-> StrA, label |-> Str0, is_primary |-> FALSE]
          /\ RoundTrips(col)

\* C11: POST /contacts/{id}/methods/ fails with status 400 and creates no method
\* when method_type or value is missing or empty, and fails with status 404 and
\* creates no method when the contact is absent.
C11_CreateForContactValidates ==
    Serving =>
    \A cid \in ContactIds, data \in MethodBodies :
        LET out == ContactMethodListPost(cid, data)
        IN /\ cid \notin DOMAIN contacts =>
                 out.resp.status = 404 /\ OutStore(out) = store
           /\ (cid \in DOMAIN contacts /\ Offending(data)) =>
                 out.resp.status = 400 /\ OutStore(out) = store

\* what does hold of POST /contacts/{id}/methods/: an absent contact is answered 404
\* and a body that lacks the key method_type or the key value 400, the store kept
C11_CreateForContactRequiresKeys ==
    Serving =>
    \A cid \in ContactIds, data \in MethodBodies :
        LET out == ContactMethodListPost(cid, data)
        IN /\ cid \notin DOMAIN contacts =>
                 out.resp.status = 404 /\ OutStore(out) = store
           /\ (cid \in DOMAIN contacts
                  /\ ("method_type" \notin DOMAIN data \/ "value" \notin DOMAIN data)) =>
                 out.resp.status = 400 /\ OutStore(out) = store

\* the fields of a method a PUT body may name
MethodKeys == {"method_type", "label", "value", "is_primary"}

\* method n, not the one saved, is as it was, or it was a primary of the saved
\* method's contact and type and has lost nothing but its flag
KeptOrDemoted(before, after, saved) ==
    \/ after = before
    \/ /\ saved.is_primary /\ before.is_primary
       /\ before.contact = saved.contact /\ before.method_type = saved.method_type
       /\ after = [before EXCEPT !.is_primary = FALSE]

\* C12: a successful PUT on a method writes exactly the keys of the body among
\* method_type, label, value, is_primary over the method and leaves its other
\* fields, is_primary included when the body does not name it; any other method is
\* unchanged, or is a primary of the saved method's contact and type that lost its
\* flag because the saved method is primary.
C12_MethodUpdateWritesProvidedKeys ==
    Serving =>
    \A cid \in ContactIds, mid \in DOMAIN methods, data \in MethodBodies :
        LET out == ContactMethodDetailPut(cid, mid, data)
        IN out.resp.status = 200 =>
              /\ DOMAIN out.methods = DOMAIN methods
              /\ out.contacts = contacts
              /\ out.methods[mid].contact = methods[mid].contact
              /\ \A k \in MethodKeys :
                    out.methods[mid][k] = IF k \in DOMAIN data THEN data[k]
                                          ELSE methods[mid][k]
              /\ \A n \in DOMAIN methods \ {mid} :
                    KeptOrDemoted(methods[n], out.methods[n], out.methods[mid])

\* a PUT whose body does not name is_primary has just left its method primary,
\* with another method of the same contact and type stored beside it
C12_Witness ==
    /\ req.op = "method_update" /\ resp.status = 200 /\ ~req.has_primary
    /\ req.method_id \in DOMAIN methods
    /\ methods[req.method_id].is_primary
    /\ \E n \in DOMAIN methods \ {req.method_id} :
          /\ methods[n].contact = methods[req.method_id].contact
          /\ methods[n].method_type = methods[req.method_id].method_type
          /\ ~methods[n].is_primary

\* C13: in every reachable state every stored contact has a non-empty name.
C13_ContactNamesNonEmpty ==
    \A c \in DOMAIN contacts : contacts[c].name # Str0

\* the contacts out stores that the state does not have
NewContacts(out) == DOMAIN out.contacts \ DOMAIN contacts

\* what does hold of the names: a contact that POST /contacts/ or an upload creates
\* has a non-empty name
C13_CreatedNamesNonEmpty ==
    Serving =>
    /\ \A data \in CreateBodies :
          \A c \in NewContacts(ContactListPost(data)) :
              ContactListPost(data).contacts[c].name # Str0
    /\ \A file \in Files :
          \A c \in NewContacts(ContactImportPost(file)) :
              ContactImportPost(file).contacts[c].name # Str0

\* C14: in every reachable state every stored method has a method_type that is one
\* of phone, email, social_media, address.
C14_MethodTypesInEnum ==
    \A m \in DOMAIN methods : methods[m].method_type \in DOMAIN METHOD_TYPES

\* C15: a PUT on a contact whose body has contact_methods and that fails leaves the
\* contact's name, bookmark flag and stored methods exactly as they were.
C15_UpdateIsAllOrNothing ==
    [][(req'.op = "contact_update" /\ req'.has_methods /\ resp'.status # 200)
          => (contacts' = contacts /\ methods' = methods)]_vars

\* C16: a PUT or DELETE on /contacts/{id}/methods/{method_id}/ whose method_id is
\* not a method of contact {id} changes and removes no method.
C16_MethodOfOtherContactUntouched ==
    [][(/\ req'.op \in {"method_update", "method_delete"}
        /\ (\/ req'.method_id \notin DOMAIN methods
            \/ methods[req'.method_id].contact # req'.contact_id))
          => methods' = methods]_vars

====
